---- MODULE Spec2Model ----
(***************************************************************************)
(* Model of ai-dashboard.py: load_grade_data, render_average_chart, main.  *)
(*                                                                         *)
(* A Python dict is modelled as the sequence of its items in insertion     *)
(* order (keys unique).  A subject's grades dict is modelled as the        *)
(* sequence of its values in insertion order (the labels "test1", ... are  *)
(* the positions).  Python floats are modelled as exact rationals          *)
(* [num, den] in lowest terms.                                             *)
(***************************************************************************)
EXTENDS Integers, Sequences, FiniteSets, TLC

\* ---------------------------------------------------------------- bounds
MaxSubjects == 2      \* members of the "subjects" object in the file text
MaxScores == 2        \* scores of one subject
MaxLoads == 2         \* calls of load_grade_data in SpecLoad

SubjectNames == {"Math", "Art", "Dansk"}
Scores == {4, 8, 10}

SeqUpTo(S, n) == UNION {[1..k -> S] : k \in 0..n}

\* ------------------------------------------------------------ the file
\* A "subjects" member as written in the JSON text: name and scores.  The
\* text may repeat a name (JSON allows duplicate keys).
Members == SubjectNames \X SeqUpTo(Scores, MaxScores)

\* The file beside the script: absent, not JSON, or a JSON object.
Files ==
    {[exists |-> FALSE, wellformed |-> FALSE, hasStudent |-> FALSE,
      hasSubjects |-> FALSE, members |-> <<>>],
     [exists |-> TRUE, wellformed |-> FALSE, hasStudent |-> FALSE,
      hasSubjects |-> FALSE, members |-> <<>>]}
    \cup {[exists |-> TRUE, wellformed |-> TRUE, hasStudent |-> s,
           hasSubjects |-> FALSE, members |-> <<>>] : s \in BOOLEAN}
    \cup {[exists |-> TRUE, wellformed |-> TRUE, hasStudent |-> s,
           hasSubjects |-> TRUE, members |-> m] :
              s \in BOOLEAN, m \in SeqUpTo(Members, MaxSubjects)}

VARIABLES fs, pc, heap, data, results, modified, reads, app, theme,
          header, button, card, chart, err, loopEntered

vars == <<fs, pc, heap, data, results, modified, reads, app, theme,
          header, button, card, chart, err, loopEntered>>

\* ------------------------------------------------------- json.load(f)
\* dict built from the members left to right: a repeated key keeps its
\* first position and takes the last value.
RECURSIVE DictFromPairs(_, _)
DictFromPairs(pairs, d) ==
    IF pairs = <<>> THEN d
    ELSE LET p == Head(pairs)
             hit == {i \in DOMAIN d : d[i][1] = p[1]}
         IN DictFromPairs(Tail(pairs),
                IF hit = {} THEN Append(d, p)
                ELSE [i \in DOMAIN d |-> IF i \in hit THEN p ELSE d[i]])

json_load(f) ==
    IF ~f.wellformed
    THEN [err |-> "JSONDecodeError", value |-> [keys |-> {}, student |-> "", subjects |-> <<>>]]
    ELSE [err |-> "none",
          value |-> [keys |-> (IF f.hasStudent THEN {"student"} ELSE {})
                              \cup (IF f.hasSubjects THEN {"subjects"} ELSE {}),
                     student |-> IF f.hasStudent THEN "Peter Jensen" ELSE "",
                     subjects |-> DictFromPairs(f.members, <<>>)]]

EmptyRecord == [keys |-> {}, student |-> "", subjects |-> <<>>]

\* Plausible bug: a missing file yields an empty record instead of raising.
load_grade_data_default(h, n, f) ==
    IF ~f.exists
    THEN [err |-> "none", ref |-> Len(h) + 1, heap |-> Append(h, EmptyRecord), reads |-> n + 1]
    ELSE LET r == json_load(f) IN
         IF r.err # "none"
         THEN [err |-> r.err, ref |-> 0, heap |-> h, reads |-> n + 1]
         ELSE [err |-> "none", ref |-> Len(h) + 1, heap |-> Append(h, r.value), reads |-> n + 1]

\* Plausible bug: the result of the first successful load is kept and
\* handed out again without opening the file.
load_grade_data_cached(h, n, f) ==
    IF h # <<>>
    THEN [err |-> "none", ref |-> 1, heap |-> h, reads |-> n]
    ELSE IF ~f.exists
    THEN [err |-> "FileNotFoundError", ref |-> 0, heap |-> h, reads |-> n + 1]
    ELSE LET r == json_load(f) IN
         IF r.err # "none"
         THEN [err |-> r.err, ref |-> 0, heap |-> h, reads |-> n + 1]
         ELSE [err |-> "none", ref |-> Len(h) + 1, heap |-> Append(h, r.value), reads |-> n + 1]

\* with open(file_path, "r", encoding="utf-8") as f: return json.load(f)
\* h is the heap of records, n the number of times the file was opened so
\* far; the result carries the exception raised or the reference to the
\* newly built record.
load_grade_data(h, n, f) ==
    IF ~f.exists
    THEN [err |-> "FileNotFoundError", ref |-> 0, heap |-> h, reads |-> n + 1]
    ELSE LET r == json_load(f) IN
         IF r.err # "none"
         THEN [err |-> r.err, ref |-> 0, heap |-> h, reads |-> n + 1]
         ELSE [err |-> "none", ref |-> Len(h) + 1, heap |-> Append(h, r.value), reads |-> n + 1]

\* ---------------------------------------------------------- arithmetic
RECURSIVE GCD(_, _)
GCD(a, b) == IF b = 0 THEN a ELSE GCD(b, a % b)

Rat(n, d) == LET g == GCD(n, d) IN
             IF g = 0 THEN [num |-> 0, den |-> 1] ELSE [num |-> n \div g, den |-> d \div g]

RatAdd(a, b) == Rat(a.num * b.den + b.num * a.den, a.den * b.den)

\* sum(xs) over a sequence of ints: starts at 0, adds left to right.
RECURSIVE SumInts(_)
SumInts(xs) == IF xs = <<>> THEN 0 ELSE Head(xs) + SumInts(Tail(xs))

\* sum(xs) over a sequence of floats.
RECURSIVE SumRats(_)
SumRats(xs) == IF xs = <<>> THEN Rat(0, 1) ELSE RatAdd(Head(xs), SumRats(Tail(xs)))

\* Python's x / n with n an int (len(...)): raises on n = 0.
TrueDiv(x, n) ==
    IF n = 0 THEN [err |-> "ZeroDivisionError", val |-> Rat(0, 1)]
    ELSE [err |-> "none", val |-> Rat(x.num, x.den * n)]

\* Plausible bug: an empty subject is given the average 0.
subject_average_guarded(grades) ==
    IF grades = <<>> THEN [err |-> "none", val |-> Rat(0, 1)]
    ELSE TrueDiv(Rat(SumInts(grades), 1), Len(grades))

\* Plausible bug: the sum is not divided by the count.
subject_average_sum(grades) ==
    IF grades = <<>> THEN [err |-> "ZeroDivisionError", val |-> Rat(0, 1)]
    ELSE [err |-> "none", val |-> Rat(SumInts(grades), 1)]

\* avg = sum(grades.values()) / len(grades)
subject_average(grades) == TrueDiv(Rat(SumInts(grades), 1), Len(grades))

\* for subject, grades in data["subjects"].items(): ...
RECURSIVE AverageLoop(_, _, _)
AverageLoop(items, subjects, averages) ==
    IF items = <<>>
    THEN [err |-> "none", subjects |-> subjects, averages |-> averages]
    ELSE LET a == subject_average(Head(items)[2]) IN
         IF a.err # "none"
         THEN [err |-> a.err, subjects |-> subjects, averages |-> averages]
         ELSE AverageLoop(Tail(items), Append(subjects, Head(items)[1]),
                          Append(averages, a.val))

\* Plausible bug: the conditional guard is missing.
overall_average_unguarded(averages) == TrueDiv(SumRats(averages), Len(averages))

\* Plausible bug: the sum of the averages is not divided by their number.
overall_average_sum(averages) ==
    IF averages # <<>> THEN [err |-> "none", val |-> SumRats(averages)]
    ELSE [err |-> "none", val |-> Rat(0, 1)]

\* overall_average = sum(averages) / len(averages) if averages else 0
overall_average(averages) ==
    IF averages # <<>> THEN TrueDiv(SumRats(averages), Len(averages))
    ELSE [err |-> "none", val |-> Rat(0, 1)]

OverallLabel == "Samlet gennemsnit"

\* Plausible bug: the overall pair is never appended.
chart_series_no_overall(subjects, averages, overall) ==
    [i \in 1..Len(subjects) |-> [label |-> subjects[i], value |-> averages[i]]]

\* subjects.append("Samlet gennemsnit"); averages.append(overall_average);
\* the bars are zip(subjects, averages).
chart_series(subjects, averages, overall) ==
    LET ss == Append(subjects, OverallLabel)
        as == Append(averages, overall)
    IN [i \in 1..Len(ss) |-> [label |-> ss[i], value |-> as[i]]]

\* The aggregation of render_average_chart: the series handed to ax.bar, or
\* the exception raised before any figure is created.
render_average_chart(d) ==
    IF "subjects" \notin d.keys
    THEN [err |-> "KeyError", series |-> <<>>]
    ELSE LET loop == AverageLoop(d.subjects, <<>>, <<>>) IN
         IF loop.err # "none" THEN [err |-> loop.err, series |-> <<>>]
         ELSE LET o == overall_average(loop.averages) IN
              IF o.err # "none" THEN [err |-> o.err, series |-> <<>>]
              ELSE [err |-> "none",
                    series |-> chart_series(loop.subjects, loop.averages, o.val)]

\* ----------------------------------------------------------------- Init
Init ==
    /\ fs \in Files
    /\ pc = "start"
    /\ heap = <<>>
    /\ data = 0
    /\ results = <<>>
    /\ modified = {}
    /\ reads = 0
    /\ app = "none"
    /\ theme = "none"
    /\ header = ""
    /\ button = FALSE
    /\ card = FALSE
    /\ chart = <<>>
    /\ err = "none"
    /\ loopEntered = FALSE

\* ----------------------------------------------------------------- main
\* data = load_grade_data(data_file)
MainLoad ==
    /\ pc = "start"
    /\ LET r == load_grade_data(heap, reads, fs) IN
         /\ heap' = r.heap
         /\ reads' = r.reads
         /\ results' = Append(results, [err |-> r.err, ref |-> r.ref])
         /\ data' = r.ref
         /\ err' = r.err
         /\ pc' = IF r.err # "none" THEN "crashed" ELSE "loaded"
    /\ UNCHANGED <<fs, modified, app, theme, header, button, card, chart, loopEntered>>

\* app = tb.Window(title="Elevdashboard", themename="flatly")
CreateWindow ==
    /\ pc = "loaded"
    /\ app' = "created"
    /\ theme' = "flatly"
    /\ pc' = "window"
    /\ UNCHANGED <<fs, heap, data, results, modified, reads, header, button, card,
                   chart, err, loopEntered>>

\* header frame, title label f"Karakterer · {data.get('student', 'Elev')}",
\* and the theme button.
BuildHeader ==
    /\ pc = "window"
    /\ header' = <<"Karakterer", IF "student" \in heap[data].keys
                                 THEN heap[data].student ELSE "Elev">>
    /\ button' = TRUE
    /\ pc' = "header"
    /\ UNCHANGED <<fs, heap, data, results, modified, reads, app, theme, card,
                   chart, err, loopEntered>>

\* main frame and the "Oversigt" card.
BuildCard ==
    /\ pc = "header"
    /\ card' = TRUE
    /\ pc' = "card"
    /\ UNCHANGED <<fs, heap, data, results, modified, reads, app, theme, header,
                   button, chart, err, loopEntered>>

\* Plausible bug: the exception of the aggregation is swallowed and the
\* program goes on with an empty chart.
RenderChartCaught ==
    /\ pc = "card"
    /\ LET r == render_average_chart(heap[data]) IN
         /\ chart' = r.series
         /\ err' = r.err
         /\ pc' = "rendered"
    /\ UNCHANGED <<fs, heap, data, results, modified, reads, app, theme, header,
                   button, card, loopEntered>>

\* Plausible bug: the overall bar is stored in the record's subjects.
RenderChartMutating ==
    /\ pc = "card"
    /\ LET r == render_average_chart(heap[data]) IN
         /\ chart' = r.series
         /\ err' = r.err
         /\ pc' = IF r.err # "none" THEN "crashed" ELSE "rendered"
         /\ heap' = IF r.err # "none" THEN heap
                    ELSE [heap EXCEPT ![data].subjects = Append(@, <<OverallLabel, <<>>>>)]
    /\ UNCHANGED <<fs, data, results, modified, reads, app, theme, header,
                   button, card, loopEntered>>

\* Plausible bug: the chart step loads the file again.
RenderChartReload ==
    /\ pc = "card"
    /\ LET l == load_grade_data(heap, reads, fs)
           r == render_average_chart(l.heap[l.ref])
       IN
         /\ heap' = l.heap
         /\ reads' = l.reads
         /\ data' = l.ref
         /\ chart' = r.series
         /\ err' = r.err
         /\ pc' = IF r.err # "none" THEN "crashed" ELSE "rendered"
    /\ UNCHANGED <<fs, results, modified, app, theme, header, button, card, loopEntered>>

\* render_average_chart(card, data)
RenderChart ==
    /\ pc = "card"
    /\ LET r == render_average_chart(heap[data]) IN
         /\ chart' = r.series
         /\ err' = r.err
         /\ pc' = IF r.err # "none" THEN "crashed" ELSE "rendered"
    /\ UNCHANGED <<fs, heap, data, results, modified, reads, app, theme, header,
                   button, card, loopEntered>>

\* app.mainloop()
MainLoop ==
    /\ pc = "rendered"
    /\ pc' = "mainloop"
    /\ loopEntered' = TRUE
    /\ UNCHANGED <<fs, heap, data, results, modified, reads, app, theme, header,
                   button, card, chart, err>>

\* The button's command: lambda: app.style.theme_use("cosmo")
ThemeSwitch ==
    /\ pc = "mainloop"
    /\ button
    /\ theme' = "cosmo"
    /\ UNCHANGED <<fs, pc, heap, data, results, modified, reads, app, header,
                   button, card, chart, err, loopEntered>>

\* The user closes the window: mainloop returns and main ends.
CloseWindow ==
    /\ pc = "mainloop"
    /\ pc' = "exited"
    /\ app' = "destroyed"
    /\ UNCHANGED <<fs, heap, data, results, modified, reads, theme, header,
                   button, card, chart, err, loopEntered>>

Next ==
    \/ MainLoad
    \/ CreateWindow
    \/ BuildHeader
    \/ BuildCard
    \/ RenderChart
    \/ MainLoop
    \/ ThemeSwitch
    \/ CloseWindow

Spec == Init /\ [][Next]_vars

\* ------------------------------------------- load_grade_data on its own
\* A caller loads the same unchanged file repeatedly and may change the
\* records it was given.
CallLoad ==
    /\ pc = "start"
    /\ Len(results) < MaxLoads
    /\ LET r == load_grade_data(heap, reads, fs) IN
         /\ heap' = r.heap
         /\ reads' = r.reads
         /\ results' = Append(results, [err |-> r.err, ref |-> r.ref])
    /\ UNCHANGED <<fs, pc, data, modified, app, theme, header, button, card,
                   chart, err, loopEntered>>

\* The caller changes one of the records it holds (record["student"] = ...).
Modify ==
    /\ pc = "start"
    /\ \E i \in DOMAIN results :
         /\ results[i].err = "none"
         /\ results[i].ref \notin modified
         /\ heap' = [heap EXCEPT ![results[i].ref] =
                        [@ EXCEPT !.keys = @ \cup {"student"}, !.student = "changed"]]
         /\ modified' = modified \cup {results[i].ref}
    /\ UNCHANGED <<fs, pc, data, results, reads, app, theme, header, button, card,
                   chart, err, loopEntered>>

NextLoad == CallLoad \/ Modify

SpecLoad == Init /\ [][NextLoad]_vars

\* ------------------------------------------------------------ properties
PostRender == pc \in {"rendered", "mainloop", "exited"}

Subjects == heap[data].subjects

HasSubjects == data # 0 /\ "subjects" \in heap[data].keys

HasEmptySubject == \E i \in DOMAIN Subjects : Subjects[i][2] = <<>>

SeqMin(xs) == CHOOSE m \in {xs[i] : i \in DOMAIN xs} : \A i \in DOMAIN xs : m <= xs[i]

SeqMax(xs) == CHOOSE m \in {xs[i] : i \in DOMAIN xs} : \A i \in DOMAIN xs : m >= xs[i]

\* Product of the numbers of scores of the subjects k..Len(items).
RECURSIVE LenProduct(_, _)
LenProduct(items, k) ==
    IF k > Len(items) THEN 1 ELSE Len(items[k][2]) * LenProduct(items, k + 1)

\* Sum over the subjects k.. of (sum of scores / number of scores), scaled
\* by the common denominator p (a multiple of every number of scores).
RECURSIVE ScaledMeans(_, _, _)
ScaledMeans(items, k, p) ==
    IF k > Len(items) THEN 0
    ELSE SumInts(items[k][2]) * (p \div Len(items[k][2])) + ScaledMeans(items, k + 1, p)

\* f's text parses to the record d: the keys of d are the member names of
\* the text, each carrying the scores of its last member, ordered by first
\* appearance.
First(ms, name) == CHOOSE j \in DOMAIN ms :
                      ms[j][1] = name /\ \A k \in DOMAIN ms : ms[k][1] = name => j <= k

Last(ms, name) == CHOOSE j \in DOMAIN ms :
                     ms[j][1] = name /\ \A k \in DOMAIN ms : ms[k][1] = name => j >= k

ParsedFrom(d, f) ==
    /\ ("student" \in d.keys) = f.hasStudent
    /\ ("subjects" \in d.keys) = f.hasSubjects
    /\ f.hasStudent => d.student = "Peter Jensen"
    /\ {d.subjects[i][1] : i \in DOMAIN d.subjects} = {f.members[j][1] : j \in DOMAIN f.members}
    /\ \A i, k \in DOMAIN d.subjects :
          i < k => First(f.members, d.subjects[i][1]) < First(f.members, d.subjects[k][1])
    /\ \A i \in DOMAIN d.subjects :
          d.subjects[i][2] = f.members[Last(f.members, d.subjects[i][1])][2]

\* C1: once the chart is built for a record with at least one subject, the
\* overall value (the last bar) is the sum of the per-subject means divided
\* by the number of subjects; Math={8,10}, Art={4} gives 13/2 (not 22/3) and
\* Math={8,10} alone gives 9 for the subject and 9 overall.
C1_OverallIsMeanOfMeans ==
    (PostRender /\ Len(Subjects) >= 1) =>
        LET o == chart[Len(chart)].value
            n == Len(Subjects)
            p == LenProduct(Subjects, 1)
        IN /\ o.den > 0
           /\ o.num * n * p = o.den * ScaledMeans(Subjects, 1, p)
           /\ Subjects = << <<"Math", <<8, 10>> >>, <<"Art", <<4>> >> >>
                 => o = [num |-> 13, den |-> 2] /\ o # [num |-> 22, den |-> 3]
           /\ Subjects = << <<"Math", <<8, 10>> >> >>
                 => chart[1].value = [num |-> 9, den |-> 1] /\ o = [num |-> 9, den |-> 1]

C1_Witness ==
    /\ PostRender
    /\ Subjects = << <<"Math", <<8, 10>> >>, <<"Art", <<4>> >> >>
    /\ chart[3].value = [num |-> 13, den |-> 2]

\* C2: once the chart is built, the series has one pair per subject, in the
\* order of the subjects mapping, labelled with the subject's name and
\* valued with the mean of its scores, followed by the overall pair as the
\* last element (length = number of subjects + 1).
C2_SeriesShape ==
    PostRender =>
        /\ Len(chart) = Len(Subjects) + 1
        /\ \A i \in DOMAIN Subjects :
              /\ chart[i].label = Subjects[i][1]
              /\ chart[i].value.den > 0
              /\ chart[i].value.num * Len(Subjects[i][2])
                    = chart[i].value.den * SumInts(Subjects[i][2])
        /\ chart[Len(chart)].label = OverallLabel
        /\ \A i \in 1..(Len(chart) - 1) : chart[i].label # OverallLabel

C2_Witness ==
    /\ PostRender
    /\ Len(Subjects) = 2
    /\ Len(chart) = 3
    /\ chart[1].label = "Art" /\ chart[2].label = "Math"

\* C3: a record with a subject that has no scores never gets a chart: the
\* aggregation raises ZeroDivisionError and produces no series.
C3_EmptySubjectRaises ==
    (HasSubjects /\ HasEmptySubject) =>
        /\ ~PostRender
        /\ chart = <<>>
        /\ pc = "crashed" => err = "ZeroDivisionError"
        /\ pc \in {"loaded", "window", "header", "card", "crashed"}

C3_Witness ==
    /\ HasSubjects /\ HasEmptySubject
    /\ pc = "crashed"
    /\ err = "ZeroDivisionError"
    /\ card

\* C4 as stated: a record with zero subjects never gets past the chart
\* step (the aggregation raises a division by zero).
C4_ZeroSubjectsRaises ==
    (HasSubjects /\ Subjects = <<>>) => ~PostRender

\* C4 amended: for a record with zero subjects the aggregation does not
\* fail; the overall average is 0 and the series is the single overall pair.
C4_ZeroSubjectsOverallZero ==
    (HasSubjects /\ Subjects = <<>> /\ pc \notin {"loaded", "window", "header", "card"}) =>
        /\ PostRender
        /\ err = "none"
        /\ chart = << [label |-> OverallLabel, value |-> [num |-> 0, den |-> 1]] >>

C4_Witness ==
    /\ HasSubjects /\ Subjects = <<>>
    /\ pc = "mainloop"
    /\ Len(chart) = 1

\* C5: once the chart is built, each per-subject average lies between the
\* minimum and the maximum of that subject's scores, and with at least one
\* subject the overall average lies between the smallest and the largest
\* score of the record.
C5_AveragesWithinRange ==
    PostRender =>
        /\ \A i \in DOMAIN Subjects :
              LET g == Subjects[i][2]
                  v == chart[i].value
              IN /\ v.den > 0
                 /\ SeqMin(g) * v.den <= v.num
                 /\ v.num <= SeqMax(g) * v.den
        /\ Len(Subjects) >= 1 =>
              LET o == chart[Len(chart)].value
                  all == UNION {{Subjects[i][2][j] : j \in DOMAIN Subjects[i][2]} :
                                   i \in DOMAIN Subjects}
              IN /\ o.den > 0
                 /\ \E lo \in all : (\A x \in all : lo <= x) /\ lo * o.den <= o.num
                 /\ \E hi \in all : (\A x \in all : hi >= x) /\ o.num <= hi * o.den

C5_Witness ==
    /\ PostRender
    /\ Len(Subjects) = 2
    /\ Subjects[1][2] = <<4, 10>>
    /\ chart[1].value = [num |-> 7, den |-> 1]
    /\ Subjects[2][2] = <<8>>

\* C6: every call of load_grade_data raises FileNotFoundError and returns
\* nothing when the file is missing, raises JSONDecodeError and returns
\* nothing when the file is not well-formed JSON, and otherwise returns the
\* parsed mapping.
C6_LoadOutcomes ==
    \A i \in DOMAIN results :
        LET r == results[i] IN
        /\ ~fs.exists => r.err = "FileNotFoundError" /\ r.ref = 0
        /\ (fs.exists /\ ~fs.wellformed) => r.err = "JSONDecodeError" /\ r.ref = 0
        /\ (fs.exists /\ fs.wellformed) =>
              /\ r.err = "none"
              /\ r.ref \in DOMAIN heap
              /\ r.ref \notin modified => ParsedFrom(heap[r.ref], fs)
        /\ r.ref = 0 => heap = <<>>

C6_Witness ==
    /\ ~fs.exists
    /\ Len(results) = MaxLoads
    /\ \A i \in DOMAIN results : results[i].err = "FileNotFoundError"

\* C7: whenever main has raised an exception it is in the terminal error
\* state, the event loop was never entered, and no step follows (no retry,
\* no degraded mode).
C7_ErrorsTerminate ==
    /\ [](err # "none" => pc = "crashed" /\ ~loopEntered /\ chart = <<>>)
    /\ [][pc = "crashed" => pc' = "crashed"]_vars
    /\ [][err # "none" => err' = err]_vars

C7_Witness ==
    /\ pc = "crashed"
    /\ err = "ZeroDivisionError"
    /\ app = "created"
    /\ ~loopEntered

\* C8: the records returned by two calls of load_grade_data on the same
\* unchanged file are distinct objects, equal as long as neither is
\* changed; changing one leaves the other as parsed; and every call opens
\* the file again.
C8_LoadTwice ==
    /\ reads = Len(results)
    /\ \A i, j \in DOMAIN results :
          (i # j /\ results[i].err = "none" /\ results[j].err = "none") =>
              LET a == results[i].ref
                  b == results[j].ref
              IN /\ a # b
                 /\ (a \notin modified /\ b \notin modified) => heap[a] = heap[b]
                 /\ b \notin modified => ParsedFrom(heap[b], fs)

C8_Witness ==
    /\ Len(results) = 2
    /\ results[1].err = "none" /\ results[2].err = "none"
    /\ results[1].ref \in modified
    /\ results[2].ref \notin modified
    /\ heap[results[1].ref] # heap[results[2].ref]

\* C9: once loaded, the record held by main is never changed by any step
\* (header, card, chart, theme switch, close).
C9_RecordNeverMutated ==
    [][data # 0 => data' = data /\ heap'[data] = heap[data]]_vars

C9_Witness ==
    /\ pc = "exited"
    /\ theme = "cosmo"
    /\ Len(chart) = 3
    /\ ParsedFrom(heap[data], fs)

\* C10: the file is opened exactly once in a run of main, before the window
\* exists and before the event loop starts, and never again.
C10_SingleReadBeforeGui ==
    /\ reads <= 1
    /\ pc # "start" => reads = 1
    /\ reads = 0 => app = "none" /\ ~loopEntered /\ chart = <<>>
    /\ Len(results) = reads

C10_Witness ==
    /\ pc = "mainloop"
    /\ theme = "cosmo"
    /\ reads = 1

====
